---- MODULE Spec2Model ----
(***************************************************************************)
(* Model of MM_base (MM_class_base.py): the constructor, set_platform and  *)
(* generate_exclusions, as a sequential state machine.  The external       *)
(* engine (OpenMM) is modelled only through the state this class reads and *)
(* writes: the forces of the built system, their nonbonded methods, the    *)
(* barostat, the integrator, the rigid bodies, the Simulation object and   *)
(* the positions held by its context.                                      *)
(*                                                                         *)
(* Real numbers are fixed-point integers: a value v stands for v / Scale.  *)
(***************************************************************************)
EXTENDS Integers, Sequences, FiniteSets, TLC

VARIABLES
    kwargs,                 \* the **kwargs of __init__ : key -> {} or {value}
    ffTemplates,            \* forcefield._templates : template -> atoms (name, type)
    topology,               \* modeller.topology : sequence of residues
    sysForces,              \* force types createSystem put into the system
    pc,                     \* position in the constructor / idle / in a method
    status,                 \* "running", "exited" (sys.exit), "raised" (exception)
    self,                   \* scalar attributes of the MM_base object
    customNonbondedForce,   \* self.customNonbondedForce
    polarization,           \* self.polarization
    nbMethod,               \* nonbonded method of the system's NonbondedForce
    cnbMethod,              \* nonbonded method of the system's CustomNonbondedForce
    barostats,              \* sequence of MonteCarloBarostat forces added
    integrator,             \* self.integrator
    bodies,                 \* rigid bodies handed to createRigidBodies
    printed,                \* messages written by print
    platform,               \* self.platform
    simmd,                  \* self.simmd : {} or {Simulation record}
    context,                \* self.simmd.context
    exclusions,             \* exclusion generators that have run on the forces
    call                    \* the method call in progress / last made

vars == <<kwargs, ffTemplates, topology, sysForces, pc, status, self,
          customNonbondedForce, polarization, nbMethod, cnbMethod, barostats,
          integrator, bodies, printed, platform, simmd, context, exclusions,
          call>>

(***************************************************************************)
(* Bounds of the model.                                                    *)
(***************************************************************************)
MaxScalarKw == 1      \* scalar keywords supplied to one construction
MaxResidues == 2      \* residues of the topology
MaxSteps    == 1      \* engine steps that move the context positions

(***************************************************************************)
(* Fixed-point scale and the engine's enum values.                         *)
(***************************************************************************)
Scale == 1000000

NoCutoff       == 0
CutoffPeriodic == 2
PME            == 4

barofreq == 100

Min(a, b) == IF a <= b THEN a ELSE b

(***************************************************************************)
(* Python conversions applied to keyword input.                            *)
(***************************************************************************)
\* int(x) of a number truncates toward zero.
int(x) == IF x >= 0 THEN (x \div Scale) * Scale
                    ELSE -(((-x) \div Scale) * Scale)

\* float(x) of a number keeps its value.
float(x) == x

\* bool(x) of a Python bool.
bool(x) == x = TRUE

Quantity(v, u) == [value |-> v, unit |-> u]

(***************************************************************************)
(* Keyword input.                                                          *)
(***************************************************************************)
ScalarKeys == {"temperature", "temperature_drude", "friction", "friction_drude",
               "timestep", "small_threshold", "cutoff"}

\* Values a caller may pass for each scalar keyword (fixed point).
ScalarInputs(k) ==
    CASE k = "temperature"       -> {298150000, 350000000}
      [] k = "temperature_drude" -> {1500000, 2000000}
      [] k = "friction"          -> {500000, 5000000}
      [] k = "friction_drude"    -> {2500000, 20000000}
      [] k = "timestep"          -> {500, 2000}
      [] k = "small_threshold"   -> {10, 1000}
      [] k = "cutoff"            -> {1000000, 1200000}

Supplied(kw, k) == kw[k] # {}
Value(kw, k) == CHOOSE v \in kw[k] : TRUE

AllScalarInputs == UNION {ScalarInputs(k) : k \in ScalarKeys}

\* Keyword dictionaries that supply at most MaxScalarKw scalar keywords.
ScalarKwargs ==
    UNION { { [k \in ScalarKeys |-> IF k \in D THEN {g[k]} ELSE {}] :
                g \in {h \in [D -> AllScalarInputs] : \A k \in D : h[k] \in ScalarInputs(k)} } :
            D \in {E \in SUBSET ScalarKeys : Cardinality(E) <= MaxScalarKw} }

NoScalarKwargs == [k \in ScalarKeys |-> {}]

\* nonbonded_method, npt_barostat, pressure: absent or one of a few values.
MethodNames == {"NoCutoff", "PME", "Ewald"}

ControlKwargs ==
    { c \in [nonbonded_method : {{}} \cup {{n} : n \in MethodNames},
              npt_barostat     : {{}, {TRUE}, {FALSE}},
              pressure         : {{}, {2500000}}] :
        \* a pressure is passed together with npt_barostat
        c.npt_barostat = {} => c.pressure = {} }

(***************************************************************************)
(* Force field templates and topology.                                     *)
(***************************************************************************)
\* Two residue templates.  Both have an atom named "O"; its type in
\* template "B" is the same as in "A" or a different one.
Templates(typeOfBO) ==
    [A |-> <<[name |-> "O", type |-> "t1"], [name |-> "H", type |-> "t2"]>>,
     B |-> <<[name |-> "O", type |-> typeOfBO], [name |-> "C", type |-> "t3"]>>]

TemplateNames == {"A", "B"}

\* Number of atoms in the residues before residue r.
RECURSIVE AtomsBefore(_, _, _)
AtomsBefore(tpl, resNames, r) ==
    IF r = 1 THEN 0
    ELSE AtomsBefore(tpl, resNames, r - 1) + Len(tpl[resNames[r - 1]])

\* Residue r of a topology built from the residue names resNames: atom
\* indices are assigned in file order, starting at 0.
Residue(tpl, resNames, r) ==
    [name  |-> resNames[r],
     atoms |-> [a \in 1..Len(tpl[resNames[r]]) |->
                 [name  |-> tpl[resNames[r]][a].name,
                  index |-> AtomsBefore(tpl, resNames, r) + (a - 1)]]]

Topology(tpl, resNames) ==
    [r \in 1..Len(resNames) |-> Residue(tpl, resNames, r)]

ResidueNameLists == UNION {[1..n -> TemplateNames] : n \in 1..MaxResidues}

RigidLists == SUBSET {"t1", "t3"}

ForceTypes == {"NonbondedForce", "CustomNonbondedForce", "DrudeForce", "CustomBondForce"}

(***************************************************************************)
(* Initial states: the object after the default assignments (lines 27-36), *)
(* together with the inputs of the construction.                           *)
(***************************************************************************)
Defaults ==
    [temperature       |-> Quantity(300 * Scale, "kelvin"),
     temperature_drude |-> Quantity(1 * Scale, "kelvin"),
     friction          |-> Quantity(1 * Scale, "1/picosecond"),
     friction_drude    |-> Quantity(1 * Scale, "1/picosecond"),
     timestep          |-> Quantity(1000, "picoseconds"),
     small_threshold   |-> Quantity(1, "dimensionless"),
     cutoff            |-> Quantity(1400000, "nanometer"),
     nonbonded_method  |-> "PME",
     npt_barostat      |-> FALSE,
     pressure          |-> {},
     rigid_body        |-> {}]

NoCall == [op |-> "none", arg |-> "none", sapt |-> FALSE, hybrid |-> FALSE,
           reinits |-> 0, positions |-> {}, lost |-> {}, ranBefore |-> {}]

Init ==
    /\ \E sk \in ScalarKwargs, ck \in ControlKwargs, rb \in {{}} \cup {{l} : l \in RigidLists},
          bo \in {"t1", "t4"}, rn \in ResidueNameLists :
          \* either scalar keywords vary, or the rigid-body inputs do
          /\ \/ rb = {} /\ bo = "t1" /\ rn = <<"A">>
             \/ sk = NoScalarKwargs
          /\ kwargs = sk @@ ck @@ [rigid_body |-> rb]
          /\ ffTemplates = Templates(bo)
          /\ topology = Topology(Templates(bo), rn)
    /\ sysForces \in SUBSET ForceTypes
    /\ pc = "kwargs"
    /\ status = "running"
    /\ self = Defaults
    /\ customNonbondedForce = "unset"
    /\ polarization = FALSE
    /\ nbMethod = NoCutoff
    /\ cnbMethod = NoCutoff
    /\ barostats = <<>>
    /\ integrator = {}
    /\ bodies = {}
    /\ printed = {}
    /\ platform = {}
    /\ simmd = {}
    /\ context = [positions |-> {}]
    /\ exclusions = {}
    /\ call = NoCall

Running(p) == pc = p /\ status = "running"

(***************************************************************************)
(* __init__, lines 38-59: reading inputs from **kwargs.                    *)
(***************************************************************************)
\* "if k in kwargs: self.k = int(kwargs[k]) * unit"
ReadInt(kw, k, old) ==
    IF Supplied(kw, k) THEN Quantity(int(Value(kw, k)), old.unit) ELSE old

\* "if k in kwargs: self.k = float(kwargs[k]) * unit"
ReadFloat(kw, k, old) ==
    IF Supplied(kw, k) THEN Quantity(float(Value(kw, k)), old.unit) ELSE old

\* Lines 39-54: the scalar keywords and nonbonded_method.
ReadScalars(kw, obj) ==
    [obj EXCEPT
       !.temperature       = ReadInt(kw, "temperature", @),
       !.temperature_drude = ReadInt(kw, "temperature_drude", @),
       !.friction          = ReadInt(kw, "friction", @),
       !.friction_drude    = ReadInt(kw, "friction_drude", @),
       !.timestep          = ReadFloat(kw, "timestep", @),
       !.small_threshold   = ReadFloat(kw, "small_threshold", @),
       !.cutoff            = ReadFloat(kw, "cutoff", @),
       !.nonbonded_method  = IF Supplied(kw, "nonbonded_method")
                             THEN Value(kw, "nonbonded_method") ELSE @]

ReadKwargs ==
    /\ Running("kwargs")
    /\ IF Supplied(kwargs, "npt_barostat") /\ ~Supplied(kwargs, "pressure")
       THEN \* line 56 assigns npt_barostat, then kwargs['pressure'] raises KeyError
            /\ self' = [ReadScalars(kwargs, self) EXCEPT
                          !.npt_barostat = bool(Value(kwargs, "npt_barostat"))]
            /\ status' = "raised"
            /\ pc' = pc
       ELSE /\ self' = [ReadScalars(kwargs, self) EXCEPT
                          !.npt_barostat = IF Supplied(kwargs, "npt_barostat")
                                           THEN bool(Value(kwargs, "npt_barostat")) ELSE @,
                          !.pressure     = IF Supplied(kwargs, "npt_barostat")
                                           THEN {Quantity(float(Value(kwargs, "pressure")),
                                                          "atmosphere")}
                                           ELSE @,
                          !.rigid_body   = kwargs.rigid_body]
            /\ status' = status
            /\ pc' = "system"
    /\ UNCHANGED <<kwargs, ffTemplates, topology, sysForces, customNonbondedForce,
                   polarization, nbMethod, cnbMethod, barostats, integrator, bodies,
                   printed, platform, simmd, context, exclusions, call>>

(***************************************************************************)
(* __init__, lines 62-93: build the system and look up its forces.         *)
(***************************************************************************)
\* [f for f in forces if type(f) == t]
ForcesOfType(t) == IF t \in sysForces THEN <<t>> ELSE <<>>

BuildSystem ==
    /\ Running("system")
    /\ IF ForcesOfType("NonbondedForce") = <<>>
       THEN \* [...][0] of an empty list raises IndexError (line 80)
            /\ status' = "raised"
            /\ pc' = pc
            /\ UNCHANGED <<customNonbondedForce, polarization>>
       ELSE /\ customNonbondedForce' =
                 IF ForcesOfType("CustomNonbondedForce") # <<>>
                 THEN Head(ForcesOfType("CustomNonbondedForce"))   \* line 83
                 ELSE "[]"                                         \* line 81
            /\ polarization' = (ForcesOfType("DrudeForce") # <<>>)
            /\ IF ForcesOfType("DrudeForce") # <<>> /\ ForcesOfType("CustomBondForce") = <<>>
               THEN \* [...][0] of an empty list raises IndexError (line 91)
                    status' = "raised" /\ pc' = pc
               ELSE status' = status /\ pc' = "method"
    /\ UNCHANGED <<kwargs, ffTemplates, topology, sysForces, self, nbMethod, cnbMethod,
                   barostats, integrator, bodies, printed, platform, simmd, context,
                   exclusions, call>>

(***************************************************************************)
(* __init__, lines 95-104: set long-range interaction method.              *)
(***************************************************************************)
\* Variant: the final else branch reports the bad name and carries on.
SetNonbondedMethod_NoExit ==
    /\ Running("method")
    /\ IF self.nonbonded_method = "NoCutoff"
       THEN /\ printed' = printed \cup {"setting NonbondedForce method to NoCutoff"}
            /\ nbMethod' = NoCutoff
       ELSE IF self.nonbonded_method = "PME"
       THEN /\ printed' = printed \cup {"setting NonbondedForce method to PME"}
            /\ nbMethod' = PME
       ELSE /\ printed' = printed \cup {"No such method for nbondedForce"}
            /\ nbMethod' = nbMethod
    /\ status' = status
    /\ pc' = "custom"
    /\ UNCHANGED <<kwargs, ffTemplates, topology, sysForces, self, customNonbondedForce,
                   polarization, cnbMethod, barostats, integrator, bodies, platform,
                   simmd, context, exclusions, call>>

SetNonbondedMethod ==
    /\ Running("method")
    /\ IF self.nonbonded_method = "NoCutoff"
       THEN /\ printed' = printed \cup {"setting NonbondedForce method to NoCutoff"}
            /\ nbMethod' = NoCutoff
            /\ status' = status
            /\ pc' = "custom"
       ELSE IF self.nonbonded_method = "PME"
       THEN /\ printed' = printed \cup {"setting NonbondedForce method to PME"}
            /\ nbMethod' = PME
            /\ status' = status
            /\ pc' = "custom"
       ELSE /\ printed' = printed \cup {"No such method for nbondedForce"}
            /\ nbMethod' = nbMethod
            /\ status' = "exited"                                  \* sys.exit()
            /\ pc' = pc
    /\ UNCHANGED <<kwargs, ffTemplates, topology, sysForces, self, customNonbondedForce,
                   polarization, cnbMethod, barostats, integrator, bodies, platform,
                   simmd, context, exclusions, call>>

(***************************************************************************)
(* __init__, lines 106-108: method of the CustomNonbondedForce.            *)
(***************************************************************************)
\* Truth value of self.customNonbondedForce: an empty list is false, a
\* force object is true.
Truthy(x) == x # "[]"

\* x[0] is defined for a non-empty list only; self.customNonbondedForce is
\* never one (line 83 replaced the list by its first element).
Subscriptable(x) == x \notin {"[]", "CustomNonbondedForce"}

SetCustomMethod ==
    /\ Running("custom")
    /\ IF Truthy(customNonbondedForce)
       THEN /\ printed' = printed \cup {"setting CustomNonbondedForce method to CutoffPeriodic"}
            /\ IF Subscriptable(customNonbondedForce)
               THEN /\ cnbMethod' = Min(nbMethod, CutoffPeriodic)
                    /\ status' = status
                    /\ pc' = "barostat"
               ELSE \* self.customNonbondedForce[0] raises TypeError (line 108)
                    /\ cnbMethod' = cnbMethod
                    /\ status' = "raised"
                    /\ pc' = pc
       ELSE /\ UNCHANGED <<printed, cnbMethod, status>>
            /\ pc' = "barostat"
    /\ UNCHANGED <<kwargs, ffTemplates, topology, sysForces, self, customNonbondedForce,
                   polarization, nbMethod, barostats, integrator, bodies, platform,
                   simmd, context, exclusions, call>>

(***************************************************************************)
(* __init__, lines 110-114: NPT barostat.                                  *)
(***************************************************************************)
\* Attributes the object has; NPT_barostat_pressure is assigned nowhere.
HasAttribute(a) == a \in DOMAIN self

AddBarostat ==
    /\ Running("barostat")
    /\ IF self.npt_barostat
       THEN /\ barostats' = Append(barostats,
                                   [pressure    |-> Value(self, "pressure"),
                                    temperature |-> self.temperature,
                                    frequency   |-> barofreq])
            /\ IF HasAttribute("NPT_barostat_pressure")
               THEN /\ printed' = printed \cup {"Simulation set to run using NPT ensemble"}
                    /\ status' = status
                    /\ pc' = "integrator"
               ELSE \* self.NPT_barostat_pressure raises AttributeError (line 114)
                    /\ printed' = printed
                    /\ status' = "raised"
                    /\ pc' = pc
       ELSE /\ UNCHANGED <<barostats, printed, status>>
            /\ pc' = "integrator"
    /\ UNCHANGED <<kwargs, ffTemplates, topology, sysForces, self, customNonbondedForce,
                   polarization, nbMethod, cnbMethod, integrator, bodies, platform,
                   simmd, context, exclusions, call>>

(***************************************************************************)
(* __init__, lines 116-123: integrator.                                    *)
(***************************************************************************)
CreateIntegrator ==
    /\ Running("integrator")
    /\ integrator' =
         IF polarization
         THEN {[kind |-> "DrudeLangevinIntegrator",
                temperature |-> self.temperature, friction |-> self.friction,
                temperature_drude |-> self.temperature_drude,
                friction_drude |-> self.friction_drude, timestep |-> self.timestep]}
         ELSE {[kind |-> "LangevinIntegrator",
                temperature |-> self.temperature, friction |-> self.friction,
                timestep |-> self.timestep]}
    /\ pc' = "rigid"
    /\ UNCHANGED <<kwargs, ffTemplates, topology, sysForces, status, self,
                   customNonbondedForce, polarization, nbMethod, cnbMethod, barostats,
                   bodies, printed, platform, simmd, context, exclusions, call>>

(***************************************************************************)
(* __init__, lines 125-144: rigid bodies.                                  *)
(***************************************************************************)
\* Lines 129-133: names of the template atoms whose type is in the list.
rigid_body_atom_names(templates, types) ==
    {templates[p[1]][p[2]].name :
       p \in UNION {{<<t, a>> : a \in {b \in 1..Len(templates[t]) :
                                             templates[t][b].type \in types}} :
                    t \in DOMAIN templates}}

\* Lines 138-141: indices of the atoms of a residue whose name is listed.
Body(res, names) ==
    LET sel == SelectSeq(res.atoms, LAMBDA atom : atom.name \in names)
    IN  [i \in 1..Len(sel) |-> sel[i].index]

\* Lines 136-143: one body per residue, empty bodies dropped.
Bodies(top, names) ==
    SelectSeq([r \in 1..Len(top) |-> Body(top[r], names)], LAMBDA body : body # <<>>)

CreateRigid ==
    /\ Running("rigid")
    /\ bodies' = IF self.rigid_body # {}
                 THEN {Bodies(topology,
                              rigid_body_atom_names(ffTemplates, Value(self, "rigid_body")))}
                 ELSE bodies
    /\ pc' = "idle"
    /\ UNCHANGED <<kwargs, ffTemplates, topology, sysForces, status, self,
                   customNonbondedForce, polarization, nbMethod, cnbMethod, barostats,
                   integrator, printed, platform, simmd, context, exclusions, call>>

Construct ==
    \/ ReadKwargs
    \/ BuildSystem
    \/ SetNonbondedMethod
    \/ SetCustomMethod
    \/ AddBarostat
    \/ CreateIntegrator
    \/ CreateRigid

(***************************************************************************)
(* set_platform, lines 177-196.                                            *)
(***************************************************************************)
PlatformNames == {"Reference", "CPU", "OpenCL", "CUDA", "Metal"}

\* Variant: the OpenCL branch compares against a misspelt name.
RecognisedPlatform_Misspelt(name) == name \in {"Reference", "CPU", "OpenCl", "CUDA"}

\* The names with a branch of their own (lines 178, 181, 184, 189).
RecognisedPlatform(name) == name \in {"Reference", "CPU", "OpenCL", "CUDA"}

\* The Simulation each branch constructs; only CUDA passes properties.
Simulation(name) ==
    [platform |-> name, properties |-> IF name = "CUDA" THEN "Precision:mixed" ELSE "none"]

\* Positions of the modeller are position set 0; engine steps number the
\* later ones.
ModellerPositions == 0

set_platform(platformname) ==
    /\ Running("idle")
    /\ call' = [NoCall EXCEPT !.op = "set_platform", !.arg = platformname]
    /\ IF RecognisedPlatform(platformname)
       THEN /\ platform' = {platformname}
            /\ simmd' = {Simulation(platformname)}
            /\ context' = [positions |-> {ModellerPositions}]     \* line 196
            /\ UNCHANGED <<printed, status>>
       ELSE /\ printed' = printed \cup {" Could not recognize platform selection ... "}
            /\ status' = "exited"                                  \* sys.exit(0)
            /\ UNCHANGED <<platform, simmd, context>>
    /\ UNCHANGED <<kwargs, ffTemplates, topology, sysForces, pc, self,
                   customNonbondedForce, polarization, nbMethod, cnbMethod, barostats,
                   integrator, bodies, exclusions>>

\* The caller runs the simulation through self.simmd: the engine moves
\* the positions held by the context.
EngineStep ==
    /\ Running("idle")
    /\ simmd # {}
    /\ context.positions # {}
    /\ \A p \in context.positions : p < MaxSteps
    /\ context' = [positions |-> {p + 1 : p \in context.positions}]
    /\ call' = [NoCall EXCEPT !.op = "step"]
    /\ UNCHANGED <<kwargs, ffTemplates, topology, sysForces, pc, status, self,
                   customNonbondedForce, polarization, nbMethod, cnbMethod, barostats,
                   integrator, bodies, printed, platform, simmd, exclusions>>

(***************************************************************************)
(* generate_exclusions, lines 203-223.                                     *)
(***************************************************************************)
\* The two generators live in MM_exclusions_base: they add exclusions and
\* interaction groups to the forces and leave the context alone.
generate_SAPT_FF_exclusions(done) == done \cup {"SAPT_FF"}

generate_exclusions_water(done) == done \cup {"water"}

GE_Unchanged ==
    UNCHANGED <<kwargs, ffTemplates, topology, sysForces, self, customNonbondedForce,
                polarization, nbMethod, cnbMethod, barostats, integrator, bodies,
                platform, simmd>>

\* The call itself, with its two flags.
GE_Call(flag_hybrid_water_model, flag_SAPT_FF_exclusions) ==
    /\ Running("idle")
    /\ call' = [NoCall EXCEPT !.op = "generate_exclusions",
                              !.sapt = flag_SAPT_FF_exclusions,
                              !.hybrid = flag_hybrid_water_model]
    /\ exclusions' = {}
    /\ pc' = "ge_sapt"
    /\ UNCHANGED <<kwargs, ffTemplates, topology, sysForces, status, self,
                   customNonbondedForce, polarization, nbMethod, cnbMethod, barostats,
                   integrator, bodies, printed, platform, simmd, context>>

\* Lines 206-207.
GE_SAPT ==
    /\ Running("ge_sapt")
    /\ exclusions' = IF call.sapt THEN generate_SAPT_FF_exclusions(exclusions)
                                  ELSE exclusions
    /\ pc' = "ge_water"
    /\ UNCHANGED <<status, printed, context, call>>
    /\ GE_Unchanged

\* Lines 210-211: the argument self.simmd raises AttributeError when
\* set_platform has not created it.
GE_Water ==
    /\ Running("ge_water")
    /\ IF call.hybrid
       THEN IF simmd = {}
            THEN status' = "raised" /\ pc' = pc /\ exclusions' = exclusions
            ELSE /\ exclusions' = generate_exclusions_water(exclusions)
                 /\ status' = status
                 /\ pc' = "ge_check"
       ELSE /\ UNCHANGED <<exclusions, status>>
            /\ pc' = "ge_check"
    /\ UNCHANGED <<printed, context, call>>
    /\ GE_Unchanged

\* Lines 214-216.
GE_Redundant ==
    /\ Running("ge_check")
    /\ IF call.sapt /\ call.hybrid
       THEN /\ printed' = printed \cup {"redundant setting of flag_SAPT_FF_exclusions and flag_hybrid_water_model"}
            /\ status' = "exited"                                  \* sys.exit()
            /\ pc' = pc
       ELSE /\ UNCHANGED <<printed, status>>
            /\ pc' = "ge_getstate"
    /\ UNCHANGED <<exclusions, context, call>>
    /\ GE_Unchanged

\* Lines 220-221: positions = state.getPositions().
GE_GetState ==
    /\ Running("ge_getstate")
    /\ IF simmd = {}
       THEN status' = "raised" /\ pc' = pc /\ call' = call
       ELSE /\ call' = [call EXCEPT !.positions = context.positions]
            /\ status' = status
            /\ pc' = "ge_reinit"
    /\ UNCHANGED <<printed, exclusions, context>>
    /\ GE_Unchanged

\* Line 222: reinitialize() rebuilds the context; its positions are lost.
GE_Reinitialize ==
    /\ Running("ge_reinit")
    /\ context' = [positions |-> {}]
    /\ call' = [call EXCEPT !.reinits = @ + 1,
                             !.lost = context.positions,      \* what the context held
                             !.ranBefore = exclusions]        \* generators run so far
    /\ pc' = "ge_setpos"
    /\ UNCHANGED <<status, printed, exclusions>>
    /\ GE_Unchanged

\* Variant: the positions of the modeller are put back, as set_platform does.
GE_SetPositions_Modeller ==
    /\ Running("ge_setpos")
    /\ context' = [positions |-> {ModellerPositions}]
    /\ pc' = "idle"
    /\ UNCHANGED <<status, printed, exclusions, call>>
    /\ GE_Unchanged

\* Line 223.
GE_SetPositions ==
    /\ Running("ge_setpos")
    /\ context' = [positions |-> call.positions]
    /\ pc' = "idle"
    /\ UNCHANGED <<status, printed, exclusions, call>>
    /\ GE_Unchanged

generate_exclusions ==
    \/ \E hybrid \in BOOLEAN, sapt \in BOOLEAN : GE_Call(hybrid, sapt)
    \/ GE_SAPT
    \/ GE_Water
    \/ GE_Redundant
    \/ GE_GetState
    \/ GE_Reinitialize
    \/ GE_SetPositions

Next ==
    \/ Construct
    \/ \E platformname \in PlatformNames : set_platform(platformname)
    \/ EngineStep
    \/ generate_exclusions

Spec == Init /\ [][Next]_vars

(***************************************************************************)
(* Properties.                                                             *)
(***************************************************************************)
FourPlatforms == {"Reference", "CPU", "OpenCL", "CUDA"}

\* C1: a set_platform call with a name other than 'Reference', 'CPU',
\* 'OpenCL' or 'CUDA' terminates the process, creating no Simulation and
\* setting no context positions; a call with one of the four names does not
\* terminate the process.
C1_SetPlatformValidation ==
    [][ (Running("idle") /\ call'.op = "set_platform") =>
          IF call'.arg \in FourPlatforms
          THEN status' = "running"
          ELSE status' = "exited" /\ simmd' = simmd /\ context' = context ]_vars

\* An unrecognised name was passed before any Simulation existed: the
\* process has exited and there is still none.
C1_Witness ==
    /\ call.op = "set_platform"
    /\ call.arg \notin FourPlatforms
    /\ status = "exited"
    /\ simmd = {}

\* The nonbonded_method the construction was asked for (default 'PME').
RequestedMethod ==
    IF Supplied(kwargs, "nonbonded_method") THEN Value(kwargs, "nonbonded_method") ELSE "PME"

MethodEnum(name) == IF name = "NoCutoff" THEN NoCutoff ELSE PME

\* C2: with a nonbonded_method other than 'NoCutoff' or 'PME' the method
\* step of the constructor terminates the process, and no barostat,
\* integrator or rigid body exists then; with 'NoCutoff' or 'PME' (or the
\* default) the step sets the NonbondedForce method to the enum of that
\* name and the constructor moves on.
C2_NonbondedMethodValidation ==
    /\ [](RequestedMethod \notin {"NoCutoff", "PME"} =>
            /\ pc \in {"kwargs", "system", "method"}
            /\ barostats = <<>> /\ integrator = {} /\ bodies = {})
    /\ [][ Running("method") =>
             IF RequestedMethod \in {"NoCutoff", "PME"}
             THEN /\ nbMethod' = MethodEnum(RequestedMethod)
                  /\ status' = "running"
                  /\ pc' = "custom"
             ELSE /\ status' = "exited"
                  /\ pc' = "method" ]_vars

\* Construction with an unknown method name has exited at the method step.
C2_Witness ==
    /\ Supplied(kwargs, "nonbonded_method")
    /\ RequestedMethod \notin {"NoCutoff", "PME"}
    /\ pc = "method"
    /\ status = "exited"

\* C3: after construction every scalar run parameter holds its default
\* when its keyword was not supplied, and otherwise the keyword's value,
\* numerically unchanged, with the parameter's unit.
C3_ScalarsCopied ==
    (pc = "idle") =>
        \A k \in ScalarKeys :
            self[k] = IF Supplied(kwargs, k)
                      THEN Quantity(Value(kwargs, k), Defaults[k].unit)
                      ELSE Defaults[k]

\* Force-field type of atom a of residue r: the type of the template atom
\* it was matched to.
TypeOfAtom(r, a) == ffTemplates[topology[r].name][a].type

BodiesMade == CHOOSE b \in bodies : TRUE

InSomeBody(index) ==
    \E g \in 1..Len(BodiesMade) : \E i \in 1..Len(BodiesMade[g]) : BodiesMade[g][i] = index

ResidueOfIndex(index) ==
    CHOOSE r \in 1..Len(topology) :
        \E a \in 1..Len(topology[r].atoms) : topology[r].atoms[a].index = index

\* C4: the rigid-body groups select atoms by type: an atom index is in
\* some group exactly when the atom's force-field type is in the
\* rigid_body list; every group is non-empty, lies within one residue, and
\* no index is in two groups.
C4_RigidBodiesByType ==
    (bodies # {}) =>
        /\ \A r \in 1..Len(topology) : \A a \in 1..Len(topology[r].atoms) :
              InSomeBody(topology[r].atoms[a].index)
                  <=> TypeOfAtom(r, a) \in Value(self, "rigid_body")
        /\ \A g \in 1..Len(BodiesMade) :
              /\ BodiesMade[g] # <<>>
              /\ \A i, j \in 1..Len(BodiesMade[g]) :
                    /\ ResidueOfIndex(BodiesMade[g][i]) = ResidueOfIndex(BodiesMade[g][j])
                    /\ (i # j => BodiesMade[g][i] # BodiesMade[g][j])
        /\ \A g, h \in 1..Len(BodiesMade) :
              g # h => \A i \in 1..Len(BodiesMade[g]), j \in 1..Len(BodiesMade[h]) :
                          BodiesMade[g][i] # BodiesMade[h][j]

NptRequested ==
    /\ Supplied(kwargs, "npt_barostat") /\ Value(kwargs, "npt_barostat") = TRUE
    /\ Supplied(kwargs, "pressure")

\* C5: with npt_barostat true and a pressure, the barostat step adds exactly
\* one barostat (that pressure, the stored temperature, frequency 100),
\* reports the NPT message and the constructor goes on to the integrator;
\* without npt_barostat no barostat is ever added.
C5_BarostatAdded ==
    /\ (NptRequested /\ pc = "barostat") => status = "running"
    /\ (barostats # <<>>) =>
          /\ NptRequested
          /\ barostats = <<[pressure    |-> Quantity(Value(kwargs, "pressure"), "atmosphere"),
                            temperature |-> self.temperature,
                            frequency   |-> 100]>>
          /\ "Simulation set to run using NPT ensemble" \in printed
    /\ (NptRequested /\ pc \in {"integrator", "rigid", "idle"}) => Len(barostats) = 1
    /\ ~Supplied(kwargs, "npt_barostat") => barostats = <<>>

\* C6: with a CustomNonbondedForce in the system the custom step sets its
\* method to the lesser of the NonbondedForce's method and CutoffPeriodic
\* and the constructor goes on; without one the step changes no method.
C6_CustomMethodSet ==
    /\ ("CustomNonbondedForce" \in sysForces /\ pc = "custom") => status = "running"
    /\ ("CustomNonbondedForce" \in sysForces
          /\ pc \in {"barostat", "integrator", "rigid", "idle"})
         => cnbMethod = Min(MethodEnum(RequestedMethod), CutoffPeriodic)
    /\ ("CustomNonbondedForce" \notin sysForces) => cnbMethod = NoCutoff

\* The generate_exclusions call has returned to the caller.
GE_Returned == call.op = "generate_exclusions" /\ pc = "idle" /\ status = "running"

RequestedGenerators ==
    (IF call.sapt THEN {"SAPT_FF"} ELSE {}) \cup (IF call.hybrid THEN {"water"} ELSE {})

\* C7: a generate_exclusions call that returns has reinitialized the
\* context exactly once, after every requested generator ran, and the
\* context then holds the positions it held just before reinitialization.
C7_ReinitializeOncePreservingPositions ==
    /\ call.reinits <= 1
    /\ GE_Returned =>
          /\ call.reinits = 1
          /\ call.ranBefore = RequestedGenerators
          /\ call.lost # {}
          /\ context.positions = call.lost

\* A call with the SAPT-FF generator returned on a context whose positions
\* the engine had moved away from the modeller's.
C7_Witness ==
    /\ GE_Returned
    /\ call.sapt
    /\ "SAPT_FF" \in exclusions
    /\ context.positions # {} /\ context.positions # {ModellerPositions}

====
